---- MODULE Spec2Model ----
(***************************************************************************)
(* Model of sample_factory/algo/learning/batcher.py: the SliceMerger      *)
(* (range-merging slot tracker) and the Batcher event handlers            *)
(* on_new_trajectories / on_training_batch_released with the batch        *)
(* assembly loop and the release of trajectory slots back to samplers.    *)
(*                                                                         *)
(* A Python slice(start, stop) is the pair <<start, stop>>; None is <<>>.  *)
(* A Python dict is a sequence in insertion order (slice_starts, whose     *)
(* iteration order the code relies on) or a set keyed by a component       *)
(* (slice_stops, only ever looked up by key).                              *)
(***************************************************************************)
EXTENDS Integers, Sequences, FiniteSets, TLC

\* ------------------------------------------------------------------ bounds
\* slots of the trajectory buffer of the first device
NumSlots == 3
\* size of the index space a SliceMerger is exercised on alone
NumIndices == 9
\* most trajectory dicts in one on_new_trajectories call
MaxTrajDicts == 1
\* largest training iteration counter the learner reports
MaxTrainingIteration == 1
\* how many more acknowledgements than batches handed out the learner may send
MaxStaleAcks == 1
\* how far total_num may be ahead of the stored indices when a sampler reports
\* a stored slot again
MaxOvercount == 1
\* in how many places a slot may be at once while samplers report stored slots
MaxCopies == 1

\* ----------------------------------------------------- program constants
\* buffer_mgr.trajectories_per_training_iteration (B)
traj_per_training_iteration == 2
\* buffer_mgr.sampling_trajectories_per_iteration
traj_per_sampling_iteration == 2
\* buffer_mgr.max_batches_to_accumulate (K)
max_batches_to_accumulate == 2

\* keys of buffer_mgr.traj_tensors_torch, in dict order
DeviceOrder == <<"cpu", "gpu">>
Devices == {DeviceOrder[i] : i \in 1..Len(DeviceOrder)}
\* the trajectory buffer of the first device has NumSlots slots; every other
\* device holds a single slot, enough for batches that span devices
SlotsOf(device) == IF device = DeviceOrder[1] THEN 0..(NumSlots - 1) ELSE {0}
BatchIdxs == 0..(max_batches_to_accumulate - 1)
None == <<>>

\* F applied to the value of e: one statement's result handed to the next
Then(e, F(_)) == CHOOSE y \in {F(v) : v \in {e}} : TRUE

\* ------------------------------------------------------------ SliceMerger
slice_len(s) == s[2] - s[1]

\* range(s.start, s.stop)
SliceIndices(s) == s[1]..(s[2] - 1)

\* SliceMerger.__init__
NewSliceMerger == [slice_starts |-> <<>>, slice_stops |-> {}, total_num |-> 0]

\* positions of the entry keyed k in the ordered dict slice_starts
StartPos(m, k) == {p \in 1..Len(m.slice_starts) : m.slice_starts[p][1] = k}
\* entries keyed k in slice_stops
StopEntries(m, k) == {s \in m.slice_stops : s[2] = k}

RemoveAt(seq, p) == [q \in 1..(Len(seq) - 1) |-> IF q < p THEN seq[q] ELSE seq[q + 1]]

\* dict.__setitem__ on slice_starts: an existing key keeps its position
SetStart(starts, s) ==
    IF \E p \in 1..Len(starts) : starts[p][1] = s[1]
    THEN [p \in 1..Len(starts) |-> IF starts[p][1] = s[1] THEN s ELSE starts[p]]
    ELSE Append(starts, s)

\* a _add_slice that leaves the running total alone
AddSliceNoTotal(m, s) ==
    [slice_starts |-> SetStart(m.slice_starts, s),
     slice_stops |-> {t \in m.slice_stops : t[2] # s[2]} \cup {s},
     total_num |-> m.total_num]

\* SliceMerger._add_slice
AddSlice(m, s) ==
    [slice_starts |-> SetStart(m.slice_starts, s),
     slice_stops |-> {t \in m.slice_stops : t[2] # s[2]} \cup {s},
     total_num |-> m.total_num + slice_len(s)]

\* the end of a _del_slice that leaves the running total alone
DelStopNoTotal(m1, s) ==
    IF StopEntries(m1, s[2]) = {}
    THEN [m |-> m1, raised |-> TRUE]
    ELSE [m |-> [m1 EXCEPT !.slice_stops = {t \in m1.slice_stops : t[2] # s[2]}],
          raised |-> FALSE]

\* SliceMerger._del_slice from its second line on: del self.slice_stops[s.stop]
\* and the running total; raised is the KeyError of a del on a missing key
DelStop(m1, s) ==
    IF StopEntries(m1, s[2]) = {}
    THEN [m |-> m1, raised |-> TRUE]
    ELSE [m |-> [m1 EXCEPT !.slice_stops = {t \in m1.slice_stops : t[2] # s[2]},
                           !.total_num = m1.total_num - slice_len(s)],
          raised |-> FALSE]

\* SliceMerger._del_slice
DelSlice(m, s) ==
    IF StartPos(m, s[1]) = {}
    THEN [m |-> m, raised |-> TRUE]
    ELSE Then([m EXCEPT !.slice_starts =
                   RemoveAt(m.slice_starts, CHOOSE q \in StartPos(m, s[1]) : TRUE)],
              LAMBDA m1 : DelStop(m1, s))

RECURSIVE merge_slices(_, _)

\* if new_slice: self.merge_slices(new_slice), r being what _del_slice left
MergeOn(r, new_slice) == IF r.raised THEN r ELSE merge_slices(r.m, new_slice)

\* merge with a slice that precedes ours in the buffer
MergePrev(m, trajectory_slice, prev_slice) ==
    Then(DelSlice(m, prev_slice), LAMBDA r :
         MergeOn(r, <<prev_slice[1], trajectory_slice[2]>>))

\* a merge with the next slice that keeps its start for the stop
MergeNextShort(m, trajectory_slice, next_slice) ==
    Then(DelSlice(m, next_slice), LAMBDA r :
         MergeOn(r, <<trajectory_slice[1], next_slice[1]>>))

\* merge with a slice that is next in the buffer
MergeNext(m, trajectory_slice, next_slice) ==
    Then(DelSlice(m, next_slice), LAMBDA r :
         MergeOn(r, <<trajectory_slice[1], next_slice[2]>>))

\* a merge_slices that only looks for a preceding slice
MergeSlicesPrevOnly(m, trajectory_slice) ==
    IF StopEntries(m, trajectory_slice[1]) # {}
    THEN Then(CHOOSE s \in StopEntries(m, trajectory_slice[1]) : TRUE, LAMBDA prev_slice :
              MergePrev(m, trajectory_slice, prev_slice))
    ELSE [m |-> AddSlice(m, trajectory_slice), raised |-> FALSE]

\* SliceMerger.merge_slices
merge_slices(m, trajectory_slice) ==
    IF StopEntries(m, trajectory_slice[1]) # {}
    THEN Then(CHOOSE s \in StopEntries(m, trajectory_slice[1]) : TRUE, LAMBDA prev_slice :
              MergePrev(m, trajectory_slice, prev_slice))
    ELSE IF StartPos(m, trajectory_slice[2]) # {}
    THEN Then(m.slice_starts[CHOOSE q \in StartPos(m, trajectory_slice[2]) : TRUE],
              LAMBDA next_slice : MergeNext(m, trajectory_slice, next_slice))
    ELSE [m |-> AddSlice(m, trajectory_slice), raised |-> FALSE]

\* an extraction that drops what is left of the slice
ExtractedNoRemainder(r, s, batch_size) ==
    IF r.raised THEN [m |-> r.m, s |-> None, raised |-> TRUE]
    ELSE IF slice_len(s) > batch_size
    THEN [m |-> r.m, s |-> <<s[1], s[1] + batch_size>>, raised |-> FALSE]
    ELSE [m |-> r.m, s |-> s, raised |-> FALSE]

\* SliceMerger._extract_at_most after self._del_slice(s), whose outcome is r:
\* the slice handed out and the merger left
Extracted(r, s, batch_size) ==
    IF r.raised THEN [m |-> r.m, s |-> None, raised |-> TRUE]
    ELSE IF slice_len(s) > batch_size
    THEN [m |-> AddSlice(r.m, <<s[1] + batch_size, s[2]>>),
          s |-> <<s[1], s[1] + batch_size>>, raised |-> FALSE]
    ELSE [m |-> r.m, s |-> s, raised |-> FALSE]

\* SliceMerger._extract_at_most
extract_at_most(m, s, batch_size) ==
    Then(DelSlice(m, s), LAMBDA r : Extracted(r, s, batch_size))

\* a get_at_most that takes the slice with the smallest start
GetAtMostSmallest(m, batch_size) ==
    IF Len(m.slice_starts) = 0
    THEN [m |-> m, s |-> None, raised |-> FALSE]
    ELSE extract_at_most(m,
                         m.slice_starts[CHOOSE p \in 1..Len(m.slice_starts) :
                             \A q \in 1..Len(m.slice_starts) :
                                 m.slice_starts[p][1] <= m.slice_starts[q][1]],
                         batch_size)

\* SliceMerger.get_at_most: the first slice in dict order
get_at_most(m, batch_size) ==
    IF Len(m.slice_starts) = 0
    THEN [m |-> m, s |-> None, raised |-> FALSE]
    ELSE extract_at_most(m, m.slice_starts[1], batch_size)

\* positions of the stored slices that are at least batch_size long
LongEnough(m, batch_size) ==
    {p \in 1..Len(m.slice_starts) : slice_len(m.slice_starts[p]) >= batch_size}

\* a get_exactly that takes what the first slice has, long enough or not
GetExactlyAnyLength(m, batch_size) == get_at_most(m, batch_size)

\* SliceMerger.get_exactly: the first slice in dict order that is long enough
get_exactly(m, batch_size) ==
    IF LongEnough(m, batch_size) = {}
    THEN [m |-> m, s |-> None, raised |-> FALSE]
    ELSE Then(m.slice_starts[CHOOSE q \in LongEnough(m, batch_size) :
                                 \A q2 \in LongEnough(m, batch_size) : q <= q2],
              LAMBDA s : extract_at_most(m, s, batch_size))

\* ------------------------------------------------------------------ Batcher
VARIABLES
    async_rl,                \* cfg.async_rl
    batched_sampling,        \* cfg.batched_sampling
    slices_for_training,     \* device -> SliceMerger
    slices_for_sampling,     \* device -> SliceMerger
    available_batches,       \* list of free batch buffer indices
    traj_tensors_to_release, \* batch index -> list of <<device, slice>>
    training_batches,        \* batch index -> list of the <<device, slot>> copied into it
    training_iteration,      \* last counter reported by the learner
    traj_buffer_queues,      \* device -> slot -> times the slot is with the sampler
                             \*   (on its queue or being written), not yet reported
    in_flight,               \* batch indices announced to the learner, not yet released
    handler,                 \* the last handler run and the batch index it was given
    emitted,                 \* signals and put_many calls of the last handler, in order
    flow,                    \* last of stop/resume_experience_collection emitted before
                             \*   the last handler ("none" when neither was)
    raised,                  \* exception that ended the last handler, "none" otherwise
    saving,                  \* the fields SavingBatcher adds to Batcher
    merger,                  \* a SliceMerger exercised on its own
    merger_indices,          \* the indices merged into it and not handed out since
    merger_call              \* its last call: method, argument, result, raised

vars == <<async_rl, batched_sampling, slices_for_training, slices_for_sampling,
          available_batches, traj_tensors_to_release, training_batches,
          training_iteration, traj_buffer_queues, in_flight, handler, emitted, flow,
          raised, saving, merger, merger_indices, merger_call>>

batcher_vars == <<async_rl, batched_sampling, slices_for_training, slices_for_sampling,
                  available_batches, traj_tensors_to_release, training_batches,
                  training_iteration, traj_buffer_queues, in_flight, handler, emitted, flow,
                  raised, saving>>

merger_vars == <<merger, merger_indices, merger_call>>

\* the state a handler works on
State == [slices_for_training |-> slices_for_training,
          slices_for_sampling |-> slices_for_sampling,
          available_batches |-> available_batches,
          traj_tensors_to_release |-> traj_tensors_to_release,
          training_batches |-> training_batches,
          training_iteration |-> training_iteration,
          traj_buffer_queues |-> traj_buffer_queues,
          in_flight |-> in_flight,
          emitted |-> <<>>,
          trajectories_copied |-> 0,
          raised |-> "none"]

\* one emission: a signal, or a put_many on a sampler queue
Event(sig, batch_idx, device, batches, iteration) ==
    [sig |-> sig, batch_idx |-> batch_idx, device |-> device, batches |-> batches,
     training_iteration |-> iteration]

Emit(st, ev) == [st EXCEPT !.emitted = Append(st.emitted, ev)]

\* a KeyError out of a SliceMerger method ends the handler
KeyErrorIf(flag) == IF flag THEN "KeyError" ELSE "none"

\* the slot indices of what put_many receives: ints, or slices when sampling is batched
BatchesSlots(batches, batched) ==
    IF batched
    THEN UNION {SliceIndices(batches[p]) : p \in 1..Len(batches)}
    ELSE {batches[p] : p \in 1..Len(batches)}

\* how many of the entries of batches hold slot i
SlotCount(batches, batched, i) ==
    IF batched
    THEN Cardinality({p \in 1..Len(batches) : i \in SliceIndices(batches[p])})
    ELSE Cardinality({p \in 1..Len(batches) : batches[p] = i})

\* traj_buffer_queues[device].put_many(batches)
PutMany(st, device, batches, batched) ==
    Then([st EXCEPT !.traj_buffer_queues[device] =
                 [i \in SlotsOf(device) |-> @[i] + SlotCount(batches, batched, i)]],
         LAMBDA st1 : Emit(st1, Event("put_many", -1, device, batches, -1)))

\* ---------------------------------------------------- _release_traj_tensors
\* self.slices_for_sampling[device].merge_slices(traj_slice), r being its outcome
SamplingMerged(st, device, r) ==
    [st EXCEPT !.slices_for_sampling[device] = r.m, !.raised = KeyErrorIf(r.raised)]

\* batched sampling, first loop: merge every slice to release into the device's
\* sampling SliceMerger
RECURSIVE MergeForSampling(_, _, _)
MergeForSampling(st, to_release, p) ==
    IF p > Len(to_release) \/ st.raised # "none" THEN st
    ELSE Then(merge_slices(st.slices_for_sampling[to_release[p][1]], to_release[p][2]),
              LAMBDA r :
         Then(SamplingMerged(st, to_release[p][1], r), LAMBDA st1 :
         MergeForSampling(st1, to_release, p + 1)))

RECURSIVE SamplingBatches(_, _)

\* one turn of the while loop, r being what get_exactly returned
SamplingBatch(m, acc, r) ==
    IF r.raised THEN [m |-> r.m, batches |-> acc, raised |-> TRUE]
    ELSE IF r.s = None THEN [m |-> m, batches |-> acc, raised |-> FALSE]
    ELSE Then(Append(acc, r.s), LAMBDA acc1 : SamplingBatches(r.m, acc1))

\* a while loop that takes whatever the first range has
SamplingBatchesAtMost(m, acc) ==
    Then(get_at_most(m, traj_per_sampling_iteration), LAMBDA r : SamplingBatch(m, acc, r))

\* batched sampling, inner while loop: get_exactly until None
SamplingBatches(m, acc) ==
    Then(get_exactly(m, traj_per_sampling_iteration), LAMBDA r : SamplingBatch(m, acc, r))

RECURSIVE CollectSamplingBatches(_, _, _)

\* new_sampling_batches[device] filled, r being the outcome of the while loop
Collected(st, nsb, p, r) ==
    Then([st EXCEPT !.slices_for_sampling[DeviceOrder[p]] = r.m,
                    !.raised = KeyErrorIf(r.raised)], LAMBDA st1 :
    Then(Append(nsb, <<DeviceOrder[p], r.batches>>), LAMBDA nsb1 :
    CollectSamplingBatches(st1, nsb1, p + 1)))

\* batched sampling, second loop, over slices_for_sampling.items(): the
\* new_sampling_batches dict as a list of <<device, batches>> in dict order
CollectSamplingBatches(st, nsb, p) ==
    IF p > Len(DeviceOrder) \/ st.raised # "none" THEN [st |-> st, nsb |-> nsb]
    ELSE Then(SamplingBatches(st.slices_for_sampling[DeviceOrder[p]], <<>>), LAMBDA r :
              Collected(st, nsb, p, r))

\* a range that stops one short
RECURSIVE RangeListShort(_, _)
RangeListShort(a, b) == IF a >= b - 1 THEN <<>> ELSE <<a>> \o RangeListShort(a + 1, b)

\* list(range(a, b))
RECURSIVE RangeList(_, _)
RangeList(a, b) == IF a >= b THEN <<>> ELSE <<a>> \o RangeList(a + 1, b)

\* position of a smallest element of a non-empty list
MinPos(l) == CHOOSE q \in 1..Len(l) : \A q2 \in 1..Len(l) : l[q] <= l[q2]

\* list.sort() on a list of ints
RECURSIVE SortList(_)
SortList(l) == IF Len(l) = 0 THEN <<>> ELSE <<l[MinPos(l)]>> \o SortList(RemoveAt(l, MinPos(l)))

\* new_sampling_batches[device] extended by idxs, a new key going last
Extended(nsb, device, idxs) ==
    IF \E q \in 1..Len(nsb) : nsb[q][1] = device
    THEN [q \in 1..Len(nsb) |->
             IF nsb[q][1] = device THEN <<device, nsb[q][2] \o idxs>> ELSE nsb[q]]
    ELSE Append(nsb, <<device, idxs>>)

\* unbatched sampling, first loop: new_sampling_batches[device].append(i) for
\* every i of every slice to release
RECURSIVE FlattenToRelease(_, _, _)
FlattenToRelease(to_release, nsb, p) ==
    IF p > Len(to_release) THEN nsb
    ELSE Then(Extended(nsb, to_release[p][1],
                       RangeList(to_release[p][2][1], to_release[p][2][2])),
              LAMBDA nsb1 : FlattenToRelease(to_release, nsb1, p + 1))

\* no sort: every list stays in the order the slices were recorded
SortAllUnsorted(nsb) == nsb

\* unbatched sampling, second loop: new_sampling_batches[device].sort()
SortAll(nsb) == [q \in 1..Len(nsb) |-> <<nsb[q][1], SortList(nsb[q][2])>>]

\* the final loop: put_many for every entry of new_sampling_batches
RECURSIVE PutAll(_, _, _, _)
PutAll(st, nsb, p, batched) ==
    IF p > Len(nsb) THEN st
    ELSE Then(PutMany(st, nsb[p][1], nsb[p][2], batched), LAMBDA st1 :
              PutAll(st1, nsb, p + 1, batched))

\* a release that keeps the list of what it released
ReleasedKeepList(st, nsb, batch_idx, batched) ==
    IF st.raised # "none" THEN st
    ELSE Then(PutAll(st, nsb, 1, batched), LAMBDA st1 :
              Emit(st1, Event("trajectory_buffers_available", -1, "", <<>>,
                              st1.training_iteration)))

\* _release_traj_tensors from self.traj_tensors_to_release[batch_idx] = [] on
Released(st, nsb, batch_idx, batched) ==
    IF st.raised # "none" THEN st
    ELSE Then([st EXCEPT !.traj_tensors_to_release[batch_idx] = <<>>], LAMBDA st1 :
         Then(PutAll(st1, nsb, 1, batched), LAMBDA st2 :
         Emit(st2, Event("trajectory_buffers_available", -1, "", <<>>,
                         st2.training_iteration))))

\* the batched branch done, its outcome being c
ReleasedBatched(c, batch_idx) == Released(c.st, c.nsb, batch_idx, TRUE)

\* Batcher._release_traj_tensors
release_traj_tensors(st, batch_idx, batched) ==
    IF batched
    THEN Then(MergeForSampling(st, st.traj_tensors_to_release[batch_idx], 1), LAMBDA st1 :
         Then(CollectSamplingBatches(st1, <<>>, 1), LAMBDA c :
         ReleasedBatched(c, batch_idx)))
    ELSE Then(FlattenToRelease(st.traj_tensors_to_release[batch_idx], <<>>, 1), LAMBDA nsb :
         Then(SortAll(nsb), LAMBDA sorted :
         Released(st, sorted, batch_idx, FALSE)))

\* ------------------------------------- _maybe_enqueue_new_training_batches
\* total_num summed over slices_for_training.values()
RECURSIVE SumTotalNum(_, _)
SumTotalNum(sft, p) ==
    IF p > Len(DeviceOrder) THEN 0
    ELSE sft[DeviceOrder[p]].total_num + SumTotalNum(sft, p + 1)

\* self.training_batches[batch_idx][start:stop] = traj_tensors[traj_slice]
CopyInto(batch, start, device, s) ==
    SubSeq(batch, 1, start)
    \o [q \in 1..slice_len(s) |-> <<device, s[1] + q - 1>>]
    \o SubSeq(batch, start + slice_len(s) + 1, Len(batch))

RECURSIVE CopyFromDevice(_, _, _)

\* a copy that leaves the slice it copied in the device's SliceMerger
CopiedKeep(st, batch_idx, device, r) ==
    IF r.raised
    THEN [st EXCEPT !.slices_for_training[device] = r.m, !.raised = "KeyError"]
    ELSE IF r.s = None THEN st
    ELSE Then([st EXCEPT !.training_batches[batch_idx] =
                             CopyInto(@, st.trajectories_copied, device, r.s),
                         !.traj_tensors_to_release[batch_idx] = Append(@, <<device, r.s>>),
                         !.trajectories_copied = @ + slice_len(r.s)],
              LAMBDA st1 : CopyFromDevice(st1, batch_idx, device))

\* the body of the inner while loop, r being what get_at_most returned: the
\* slice is copied into the batch buffer and remembered for release
Copied(st, batch_idx, device, r) ==
    IF r.raised
    THEN [st EXCEPT !.slices_for_training[device] = r.m, !.raised = "KeyError"]
    ELSE IF r.s = None THEN st
    ELSE Then([st EXCEPT !.slices_for_training[device] = r.m,
                         !.training_batches[batch_idx] =
                             CopyInto(@, st.trajectories_copied, device, r.s),
                         !.traj_tensors_to_release[batch_idx] = Append(@, <<device, r.s>>),
                         !.trajectories_copied = @ + slice_len(r.s)],
              LAMBDA st1 : CopyFromDevice(st1, batch_idx, device))

\* the inner while loop for one device: get_at_most(remaining) until the batch
\* is full or the device has nothing left
CopyFromDevice(st, batch_idx, device) ==
    IF st.raised # "none" \/ traj_per_training_iteration - st.trajectories_copied <= 0
    THEN st
    ELSE Then(get_at_most(st.slices_for_training[device],
                          traj_per_training_iteration - st.trajectories_copied),
              LAMBDA r : Copied(st, batch_idx, device, r))

\* the for loop over the shuffled devices
RECURSIVE CopyFromDevices(_, _, _, _)
CopyFromDevices(st, batch_idx, devices, p) ==
    IF p > Len(devices) THEN st
    ELSE Then(CopyFromDevice(st, batch_idx, devices[p]), LAMBDA st1 :
              CopyFromDevices(st1, batch_idx, devices, p + 1))

\* assert trajectories_copied == B and remaining == 0, then
\* training_batches_available.emit(batch_idx)
Announce(st, batch_idx) ==
    IF st.raised # "none" THEN st
    ELSE IF st.trajectories_copied # traj_per_training_iteration
    THEN [st EXCEPT !.raised = "AssertionError"]
    ELSE Then([st EXCEPT !.in_flight = @ \cup {batch_idx}], LAMBDA st1 :
              Emit(st1, Event("training_batches_available", batch_idx, "", <<>>, -1)))

\* a stop signal after every release
StopAlways(st) ==
    IF st.raised = "none"
    THEN Emit(st, Event("stop_experience_collection", -1, "", <<>>, -1))
    ELSE st

\* if not self.available_batches: self.stop_experience_collection.emit()
StopIfNoneLeft(st) ==
    IF st.raised = "none" /\ Len(st.available_batches) = 0
    THEN Emit(st, Event("stop_experience_collection", -1, "", <<>>, -1))
    ELSE st

\* a release at every announcement, whatever cfg.async_rl says
AfterAnnounceAlways(st, batch_idx, async, batched) ==
    IF st.raised # "none" THEN st
    ELSE IF async
    THEN Then(release_traj_tensors(st, batch_idx, batched), LAMBDA st1 : StopIfNoneLeft(st1))
    ELSE release_traj_tensors(st, batch_idx, batched)

\* an announcement that does not release
AfterAnnounceNoRelease(st, batch_idx, async, batched) ==
    IF st.raised # "none" \/ ~async THEN st
    ELSE StopIfNoneLeft(st)

\* if self.cfg.async_rl: release, and stop the samplers when no buffer is left
AfterAnnounce(st, batch_idx, async, batched) ==
    IF st.raised # "none" \/ ~async THEN st
    ELSE Then(release_traj_tensors(st, batch_idx, batched), LAMBDA st1 : StopIfNoneLeft(st1))

\* the buffer taken, its pending-release list checked, filled and announced
FillBuffer(st, batch_idx, devices, async, batched) ==
    IF Len(st.traj_tensors_to_release[batch_idx]) # 0
    THEN [st EXCEPT !.raised = "AssertionError"]
    ELSE Then(CopyFromDevices(st, batch_idx, devices, 1), LAMBDA st1 :
         Then(Announce(st1, batch_idx), LAMBDA st2 :
         AfterAnnounce(st2, batch_idx, async, batched)))

\* an iteration that takes the free buffer added last
AssembleBatchFromTail(st, devices, async, batched) ==
    Then([st EXCEPT !.available_batches = SubSeq(@, 1, Len(@) - 1),
                    !.trajectories_copied = 0], LAMBDA st1 :
         FillBuffer(st1, st.available_batches[Len(st.available_batches)],
                    devices, async, batched))

\* one iteration of the while loop past the guard: take the first free buffer,
\* fill it from the devices in the order shuffled, announce it
AssembleBatch(st, devices, async, batched) ==
    Then([st EXCEPT !.available_batches = Tail(@), !.trajectories_copied = 0], LAMBDA st1 :
         FillBuffer(st1, st.available_batches[1], devices, async, batched))

\* what random.shuffle(devices) can yield
DeviceShuffles ==
    {s \in [1..Len(DeviceOrder) -> Devices] : \A p, q \in 1..Len(DeviceOrder) : s[p] = s[q] => p = q}

\* Batcher._maybe_enqueue_new_training_batches: the states the call can end in,
\* one for every way the random.shuffle(devices) of its iterations can fall
RECURSIVE maybe_enqueue_new_training_batches(_, _, _)

\* a loop that looks at the data only, and pops from an empty list of buffers
MaybeEnqueueNoPoolCheck(st, async, batched) ==
    IF st.raised # "none" THEN {st}
    ELSE IF SumTotalNum(st.slices_for_training, 1) < traj_per_training_iteration THEN {st}
    ELSE IF Len(st.available_batches) = 0 THEN {[st EXCEPT !.raised = "IndexError"]}
    ELSE UNION {maybe_enqueue_new_training_batches(st1, async, batched) :
                    st1 \in {AssembleBatch(st, devices, async, batched) : devices \in DeviceShuffles}}

\* a loop that starts a batch one trajectory early
MaybeEnqueueOneEarly(st, async, batched) ==
    IF st.raised # "none" \/ Len(st.available_batches) = 0 THEN {st}
    ELSE IF SumTotalNum(st.slices_for_training, 1) < traj_per_training_iteration - 1 THEN {st}
    ELSE UNION {maybe_enqueue_new_training_batches(st1, async, batched) :
                    st1 \in {AssembleBatch(st, devices, async, batched) : devices \in DeviceShuffles}}

\* an if where the code has a while: one batch at most for every call
MaybeEnqueueOnce(st, async, batched) ==
    IF st.raised # "none" \/ Len(st.available_batches) = 0 THEN {st}
    ELSE IF SumTotalNum(st.slices_for_training, 1) < traj_per_training_iteration THEN {st}
    ELSE {AssembleBatch(st, devices, async, batched) : devices \in DeviceShuffles}

maybe_enqueue_new_training_batches(st, async, batched) ==
    IF st.raised # "none" \/ Len(st.available_batches) = 0 THEN {st}
    ELSE IF SumTotalNum(st.slices_for_training, 1) < traj_per_training_iteration THEN {st}
    ELSE UNION {maybe_enqueue_new_training_batches(st1, async, batched) :
                    st1 \in {AssembleBatch(st, devices, async, batched) : devices \in DeviceShuffles}}

\* --------------------------------------------------------------- handlers
\* trajectory_dict["traj_buffer_idx"]: an int or a slice
IntIdx(i) == [kind |-> "int", start |-> i, stop |-> i]
SliceIdx(a, b) == [kind |-> "slice", start |-> a, stop |-> b]

\* if not isinstance(trajectory_slice, slice): slice(idx, idx + 1)
AsSlice(x) == IF x.kind = "slice" THEN <<x.start, x.stop>> ELSE <<x.start, x.start + 1>>

\* self.slices_for_training[device].merge_slices(trajectory_slice), r being
\* its outcome
TrainingMerged(st, device, r) ==
    [st EXCEPT !.slices_for_training[device] = r.m, !.raised = KeyErrorIf(r.raised)]

\* the for loop of on_new_trajectories
RECURSIVE MergeReported(_, _, _, _)
MergeReported(st, trajectory_dicts, device, p) ==
    IF p > Len(trajectory_dicts) \/ st.raised # "none" THEN st
    ELSE Then(merge_slices(st.slices_for_training[device], AsSlice(trajectory_dicts[p])),
              LAMBDA r :
         Then(TrainingMerged(st, device, r), LAMBDA st1 :
         MergeReported(st1, trajectory_dicts, device, p + 1)))

\* Batcher.on_new_trajectories
on_new_trajectories(st, trajectory_dicts, device, async, batched) ==
    Then(MergeReported(st, trajectory_dicts, device, 1), LAMBDA st1 :
         maybe_enqueue_new_training_batches(st1, async, batched))

\* an acknowledgement that releases nothing
ReleaseSkipped(st, batch_idx, async, batched) == st

\* if not self.cfg.async_rl: self._release_traj_tensors(batch_idx)
ReleaseIfSync(st, batch_idx, async, batched) ==
    IF async THEN st ELSE release_traj_tensors(st, batch_idx, batched)

\* a resume whenever no buffer was free, whatever cfg.async_rl says
ResumeInAnyMode(st, async) ==
    IF st.raised = "none" /\ Len(st.available_batches) = 0
    THEN Emit(st, Event("resume_experience_collection", -1, "", <<>>, -1))
    ELSE st

\* if not self.available_batches and self.cfg.async_rl: resume
ResumeIfNoneLeft(st, async) ==
    IF st.raised = "none" /\ Len(st.available_batches) = 0 /\ async
    THEN Emit(st, Event("resume_experience_collection", -1, "", <<>>, -1))
    ELSE st

\* an append that adds the buffer index twice
AppendBatchTwice(st, batch_idx) ==
    IF st.raised = "none"
    THEN [st EXCEPT !.available_batches = Append(Append(@, batch_idx), batch_idx)]
    ELSE st

\* self.available_batches.append(batch_idx)
AppendBatch(st, batch_idx) ==
    IF st.raised = "none" THEN [st EXCEPT !.available_batches = Append(@, batch_idx)] ELSE st

\* Batcher.on_training_batch_released
on_training_batch_released(st, batch_idx, iteration, async, batched) ==
    Then([st EXCEPT !.training_iteration = iteration], LAMBDA st1 :
    Then(ReleaseIfSync(st1, batch_idx, async, batched), LAMBDA st2 :
    Then(ResumeIfNoneLeft(st2, async), LAMBDA st3 :
    Then(AppendBatch(st3, batch_idx), LAMBDA st4 :
    maybe_enqueue_new_training_batches(st4, async, batched)))))

\* ------------------------------------------------------------ environment
\* the traj_buffer_idx values a sampler can send: the index of one slot, or a
\* slice of several
TrajBufferIdxs(device) ==
    {IntIdx(i) : i \in SlotsOf(device)}
    \cup {SliceIdx(a, b + 1) : <<a, b>> \in {x \in SlotsOf(device) \X SlotsOf(device) : x[1] < x[2]}}

\* the non-empty lists of trajectory dicts of one on_new_trajectories call
TrajectoryDicts(device) == UNION {[1..n -> TrajBufferIdxs(device)] : n \in 1..MaxTrajDicts}

\* a sampler reports only slots it was handed and has not reported yet, each once
SamplerHolds(trajectory_dicts, device) ==
    /\ \A p \in 1..Len(trajectory_dicts) :
           /\ slice_len(AsSlice(trajectory_dicts[p])) >= 1
           /\ \A i \in SliceIndices(AsSlice(trajectory_dicts[p])) :
                  traj_buffer_queues[device][i] >= 1
    /\ \A p, q \in 1..Len(trajectory_dicts) :
           p # q => SliceIndices(AsSlice(trajectory_dicts[p]))
                        \cap SliceIndices(AsSlice(trajectory_dicts[q])) = {}

ReportedSlots(trajectory_dicts) ==
    UNION {SliceIndices(AsSlice(trajectory_dicts[p])) : p \in 1..Len(trajectory_dicts)}

\* stop/resume_experience_collection emitted last, given the one before
LastFlow(before, trace) ==
    LET ps == {p \in 1..Len(trace) : trace[p].sig \in {"stop_experience_collection",
                                                       "resume_experience_collection"}}
    IN  IF ps = {} THEN before
        ELSE trace[CHOOSE p \in ps : \A q \in ps : q <= p].sig

\* a batch buffer as alloc_trajectory_tensors leaves it: room for B trajectories,
\* none copied yet
EmptyBatch == [q \in 1..traj_per_training_iteration |-> <<"", -1>>]

\* the variables after a handler has run (or was ended by an exception)
Becomes(st, name, batch_idx) ==
    /\ handler' = [name |-> name, batch_idx |-> batch_idx]
    /\ slices_for_training' = st.slices_for_training
    /\ slices_for_sampling' = st.slices_for_sampling
    /\ available_batches' = st.available_batches
    /\ traj_tensors_to_release' = st.traj_tensors_to_release
    /\ training_batches' = st.training_batches
    /\ training_iteration' = st.training_iteration
    /\ traj_buffer_queues' = st.traj_buffer_queues
    /\ in_flight' = st.in_flight
    /\ emitted' = st.emitted
    /\ raised' = st.raised
    /\ flow' = LastFlow(flow, emitted)
    /\ UNCHANGED <<async_rl, batched_sampling, saving>>
    /\ UNCHANGED merger_vars

\* SavingBatcher.__init__: nothing to release, nothing collected, no iterator
NewSaving ==
    [traj_slices_to_release |-> <<>>, num_samples |-> 0,
     prev_data_collect_iteration |-> 0, data_iter |-> FALSE]

\* Batcher.__init__ and init(): every slot is with the samplers, every batch
\* buffer is free and allocated
NoCall == [method |-> "none", arg |-> None, result |-> None, raised |-> FALSE]

MergerIdle ==
    /\ merger = NewSliceMerger
    /\ merger_indices = {}
    /\ merger_call = NoCall

BatcherInit(modes) ==
    /\ async_rl \in modes
    /\ batched_sampling \in modes
    /\ slices_for_training = [d \in Devices |-> NewSliceMerger]
    /\ slices_for_sampling = [d \in Devices |-> NewSliceMerger]
    /\ available_batches = [p \in 1..max_batches_to_accumulate |-> p - 1]
    /\ traj_tensors_to_release = [b \in BatchIdxs |-> <<>>]
    /\ training_batches = [b \in BatchIdxs |-> EmptyBatch]
    /\ training_iteration = 0
    /\ traj_buffer_queues = [d \in Devices |-> [i \in SlotsOf(d) |-> 1]]
    /\ in_flight = {}
    /\ handler = [name |-> "none", batch_idx |-> -1]
    /\ emitted = <<>>
    /\ flow = "none"
    /\ raised = "none"
    /\ saving = NewSaving

Init == BatcherInit(BOOLEAN) /\ MergerIdle

\* a sampler sends new trajectories: on_new_trajectories runs
NewTrajectories ==
    \E device \in Devices : \E trajectory_dicts \in TrajectoryDicts(device) :
        /\ raised = "none"
        /\ SamplerHolds(trajectory_dicts, device)
        /\ \E st0 \in {[State EXCEPT !.traj_buffer_queues[device] =
                           [i \in SlotsOf(device) |->
                               IF i \in ReportedSlots(trajectory_dicts)
                               THEN @[i] - 1 ELSE @[i]]]} :
           \E st \in on_new_trajectories(st0, trajectory_dicts, device,
                                         async_rl, batched_sampling) :
               Becomes(st, "on_new_trajectories", -1)

\* the training iteration counters the learner can send next: its counter
\* never decreases
NextIterations == {i \in training_iteration..(training_iteration + 1) : i <= MaxTrainingIteration}

\* the learner is done with a batch it was given: on_training_batch_released
\* runs. What the buffer held is dead from here on (it is only written again
\* when the buffer is refilled), so the model resets it.
TrainingBatchReleasedOf(batch_idx) ==
    \E iteration \in NextIterations :
        /\ batch_idx \in in_flight
        /\ raised = "none"
        /\ \E st0 \in {[State EXCEPT !.in_flight = @ \ {batch_idx},
                                     !.training_batches[batch_idx] = EmptyBatch]} :
           \E st \in on_training_batch_released(st0, batch_idx, iteration,
                                                async_rl, batched_sampling) :
               Becomes(st, "on_training_batch_released", batch_idx)

TrainingBatchReleased == \E batch_idx \in BatchIdxs : TrainingBatchReleasedOf(batch_idx)

Next == NewTrajectories \/ TrainingBatchReleased

Spec == Init /\ [][Next]_vars

\* the learner gives back every batch it was given, and samplers that hold
\* slots go on reporting
FairSpec ==
    /\ Spec
    /\ \A batch_idx \in BatchIdxs : WF_vars(TrainingBatchReleasedOf(batch_idx))
    /\ WF_vars(NewTrajectories)

\* ------------------------------------------------- a SliceMerger on its own
Indices == 0..(NumIndices - 1)
IndexSlices == {<<a, b + 1>> : <<a, b>> \in {x \in Indices \X Indices : x[1] <= x[2]}}

\* the indices the stored slices cover
Covered(m) == UNION {SliceIndices(m.slice_starts[p]) : p \in 1..Len(m.slice_starts)}

\* the SliceMerger after a call that returned r
Called(r, method, arg, result, indices) ==
    /\ merger' = r.m
    /\ merger_indices' = indices
    /\ merger_call' = [method |-> method, arg |-> arg, result |-> result, raised |-> r.raised]
    /\ UNCHANGED batcher_vars

\* the indices left when slice s (or None) was handed out
Without(s) == IF s = None THEN merger_indices ELSE merger_indices \ SliceIndices(s)

Got(r, method, n) == Called(r, method, n, r.s, Without(r.s))

\* merge_slices with a slice that holds none of the indices stored
MergeSlices ==
    \E s \in IndexSlices :
        /\ ~merger_call.raised
        /\ SliceIndices(s) \cap merger_indices = {}
        /\ \E r \in {merge_slices(merger, s)} :
               Called(r, "merge_slices", s, None, merger_indices \cup SliceIndices(s))

GetAtMost ==
    \E n \in 1..NumIndices :
        /\ ~merger_call.raised
        /\ \E r \in {get_at_most(merger, n)} : Got(r, "get_at_most", n)

GetExactly ==
    \E n \in 1..NumIndices :
        /\ ~merger_call.raised
        /\ \E r \in {get_exactly(merger, n)} : Got(r, "get_exactly", n)

MergerInit == BatcherInit({FALSE}) /\ MergerIdle

MergerNext == MergeSlices \/ GetAtMost \/ GetExactly

MergerSpec == MergerInit /\ [][MergerNext]_vars

\* ------------------------------------------------------------ observations
\* every <<device, slot>> of the trajectory buffers
Slots == UNION {{<<d, i>> : i \in SlotsOf(d)} : d \in Devices}

\* how many of the slices a SliceMerger stores hold index i
TimesInMerger(m, i) ==
    Cardinality({p \in 1..Len(m.slice_starts) : i \in SliceIndices(m.slice_starts[p])})

\* how many entries of a pending-release list hold slot i of device d
TimesInList(l, d, i) ==
    Cardinality({p \in 1..Len(l) : l[p][1] = d /\ i \in SliceIndices(l[p][2])})

\* the same, summed over the lists of the batch buffers from b on
RECURSIVE TimesListed(_, _, _)
TimesListed(d, i, b) ==
    IF b >= max_batches_to_accumulate THEN 0
    ELSE TimesInList(traj_tensors_to_release[b], d, i) + TimesListed(d, i, b + 1)

\* the places that hold slot i of device d, each counted as often as it holds it
Places(d, i) ==
    traj_buffer_queues[d][i]
    + TimesInMerger(slices_for_training[d], i)
    + TimesInMerger(slices_for_sampling[d], i)
    + TimesListed(d, i, 0)

\* the <<device, slot>> pairs copied into batch buffer b
BatchSlots(b) == {training_batches[b][q] : q \in 1..Len(training_batches[b])}

\* a pending-release list slot by slot, in list order
RECURSIVE ListSlots(_)
ListSlots(l) ==
    IF Len(l) = 0 THEN <<>>
    ELSE [q \in 1..slice_len(l[1][2]) |-> <<l[1][1], l[1][2][1] + q - 1>>] \o ListSlots(Tail(l))

\* the lengths of the slices of a pending-release list, summed
RECURSIVE SumLens(_)
SumLens(l) == IF Len(l) = 0 THEN 0 ELSE slice_len(l[1][2]) + SumLens(Tail(l))

\* where the last handler emitted sig
Positions(sig) == {p \in 1..Len(emitted) : emitted[p].sig = sig}

\* the <<device, slot>> pairs of the put_many at position p
PutSlots(p) ==
    {<<emitted[p].device, i>> : i \in BatchesSlots(emitted[p].batches, batched_sampling)}

\* where the last handler announced batch buffer b, 0 if it did not
Announced(b) ==
    IF \E p \in Positions("training_batches_available") : emitted[p].batch_idx = b
    THEN CHOOSE p \in Positions("training_batches_available") : emitted[p].batch_idx = b
    ELSE 0

\* --------------------------------------------------------------------- C1
\* C1: no handler ends in the AssertionError of the assembly loop, and every
\* batch buffer announced and not yet released holds exactly
\* traj_per_training_iteration trajectories, each copied from a different slot;
\* in synchronous mode, where the list of what was extracted is still there,
\* the lengths of the extracted ranges sum to exactly that number.
C1_BatchesHoldExactlyB ==
    /\ raised # "AssertionError"
    /\ \A p \in Positions("training_batches_available") : emitted[p].batch_idx \in in_flight
    /\ \A b \in in_flight :
           /\ Len(training_batches[b]) = traj_per_training_iteration
           /\ BatchSlots(b) \subseteq Slots
           /\ Cardinality(BatchSlots(b)) = traj_per_training_iteration
           /\ ~async_rl => SumLens(traj_tensors_to_release[b]) = traj_per_training_iteration

\* a batch announced by the last handler, assembled from ranges of two devices
C1_BatchAcrossDevices ==
    \E b \in in_flight :
        /\ Announced(b) > 0
        /\ training_batches[b][1][1] # training_batches[b][2][1]

\* --------------------------------------------------------------------- C2
\* C2 as stated: in both modes, two batch buffers in flight at once were
\* copied from disjoint sets of slots.
C2_InFlightDisjoint ==
    \A b1, b2 \in in_flight : b1 # b2 => BatchSlots(b1) \cap BatchSlots(b2) = {}

\* C2 amended: in synchronous mode, two batch buffers in flight at once were
\* copied from disjoint sets of slots. (In asynchronous mode the slots go back
\* to the samplers when the batch is announced, so they can be reported and
\* batched again while the first buffer is still with the learner.)
C2_InFlightDisjointSync ==
    ~async_rl => \A b1, b2 \in in_flight : b1 # b2 => BatchSlots(b1) \cap BatchSlots(b2) = {}

\* synchronous mode with every batch buffer in flight
C2_AllInFlightSync == ~async_rl /\ in_flight = BatchIdxs /\ Cardinality(in_flight) >= 2

\* --------------------------------------------------------------------- C4
\* C4: every slot is in exactly one place, once: with the samplers, in its
\* device's training SliceMerger, in its device's sampling SliceMerger, or in
\* the pending-release list of one batch buffer.
C4_ExclusiveOwnership == \A s \in Slots : Places(s[1], s[2]) = 1

\* slots in a sampling SliceMerger and in a pending-release list at once
C4_MergerAndList ==
    /\ \E s \in Slots : TimesInMerger(slices_for_sampling[s[1]], s[2]) = 1
    /\ \E s \in Slots : TimesListed(s[1], s[2], 0) = 1

\* --------------------------------------------------------------------- C9
\* C9: in synchronous mode, while a batch buffer is in flight its
\* pending-release list holds exactly the slots copied into it, in copy order,
\* none of them is with the samplers, and no put_many since its announcement
\* carried any of them.
C9_SyncKeepsUntilReleased ==
    ~async_rl =>
        \A b \in in_flight :
            /\ ListSlots(traj_tensors_to_release[b]) = training_batches[b]
            /\ \A s \in BatchSlots(b) : traj_buffer_queues[s[1]][s[2]] = 0
            /\ \A p \in Positions("put_many") :
                   p > Announced(b) => PutSlots(p) \cap BatchSlots(b) = {}

\* synchronous mode: a handler that returned slots to the samplers ran while
\* another batch buffer stayed in flight
C9_PutWhileInFlight ==
    /\ ~async_rl
    /\ Positions("put_many") # {}
    /\ \E b \in in_flight : Announced(b) = 0

\* --------------------------------------------------------------------- C5
Stop == "stop_experience_collection"
Resume == "resume_experience_collection"

\* the stop and resume signals of the last handler, in order
FlowEmitted ==
    [p \in 1..Cardinality(Positions(Stop) \cup Positions(Resume)) |->
        emitted[CHOOSE q \in Positions(Stop) \cup Positions(Resume) :
                    Cardinality({q2 \in Positions(Stop) \cup Positions(Resume) : q2 <= q}) = p].sig]

\* the same, with the signal that came last before the handler put first
FlowHistory == IF flow = "none" THEN FlowEmitted ELSE <<flow>> \o FlowEmitted

\* C5: in asynchronous mode stop and resume alternate, stop coming first; the
\* samplers are stopped exactly while no batch buffer is free; a handler emits
\* stop once, after its last announcement, when it announced a batch and left
\* no buffer free, and not otherwise; it emits resume once, before anything
\* else, when it is on_training_batch_released arriving with no buffer free
\* (the samplers stopped), and not otherwise.
C5_StopResumeAlternate ==
    async_rl =>
        /\ \A p \in 1..(Len(FlowHistory) - 1) : FlowHistory[p] # FlowHistory[p + 1]
        /\ Len(FlowHistory) > 0 /\ flow = "none" => FlowHistory[1] = Stop
        /\ LastFlow(flow, emitted) = Stop <=> Len(available_batches) = 0
        /\ Cardinality(Positions(Stop)) =
               IF Positions("training_batches_available") # {} /\ Len(available_batches) = 0
               THEN 1 ELSE 0
        /\ \A p \in Positions(Stop) :
               p = Len(emitted) /\ \A q \in Positions("training_batches_available") : q < p
        /\ Cardinality(Positions(Resume)) =
               IF handler.name = "on_training_batch_released" /\ flow = Stop THEN 1 ELSE 0
        /\ \A p \in Positions(Resume) : p = 1

\* asynchronous mode: a release that arrived while the samplers were stopped
\* resumed them, and the batch assembled next stopped them again
C5_ResumeThenStop ==
    /\ async_rl
    /\ handler.name = "on_training_batch_released"
    /\ flow = Stop
    /\ FlowEmitted = <<Resume, Stop>>

\* asynchronous mode: one handler announced both batch buffers and stopped
\* the samplers once
C5_TwoReadyOneStop ==
    /\ async_rl
    /\ Cardinality(Positions("training_batches_available")) = 2
    /\ FlowEmitted = <<Stop>>

\* -------------------------------------------------------------------- C10
\* position p of the last handler's trace lies between an announcement and
\* the trajectory_buffers_available that ends its release
AfterAnAnnouncement(p) == \E q \in Positions("training_batches_available") : q < p

\* the announcement at position p is followed by put_many calls only, up to a
\* trajectory_buffers_available
ReleaseFollows(p) ==
    \E q \in Positions("trajectory_buffers_available") :
        q > p /\ \A r \in (p + 1)..(q - 1) : emitted[r].sig = "put_many"

\* the slots put between the announcement at position p and the next one
PutInRelease(p) ==
    UNION {PutSlots(r) : r \in {r \in Positions("put_many") :
               r > p /\ \A q \in Positions("training_batches_available") : q > p => r < q}}

\* the slots put from position p on
PutFrom(p) == UNION {PutSlots(r) : r \in {r \in Positions("put_many") : r > p}}

\* the slots the sampling SliceMergers hold
InSamplingMergers == {s \in Slots : TimesInMerger(slices_for_sampling[s[1]], s[2]) >= 1}

\* no pending-release list holds anything
NothingPending == \A b \in BatchIdxs : Len(traj_tensors_to_release[b]) = 0

\* C10 as stated: in asynchronous mode every announcement is followed at once,
\* before the next announcement, by the release that puts the slots of the
\* batch, all of them, on the samplers' queues; nothing is put or released
\* except after an announcement; every pending-release list is empty when a
\* handler has returned.
C10_AsyncPutsWholeList ==
    async_rl =>
        /\ NothingPending
        /\ \A p \in Positions("put_many") \cup Positions("trajectory_buffers_available") :
               AfterAnAnnouncement(p)
        /\ \A p \in Positions("training_batches_available") :
               /\ ReleaseFollows(p)
               /\ PutInRelease(p) = BatchSlots(emitted[p].batch_idx)

\* C10 amended: in asynchronous mode every announcement is followed at once,
\* before the next announcement, by the release of the batch's pending-release
\* list; nothing is put or released except after an announcement; every
\* pending-release list is empty when a handler has returned. With unbatched
\* sampling the release puts exactly the slots of the batch on the samplers'
\* queues; with batched sampling it hands them to the sampling SliceMergers,
\* which put only whole ranges of traj_per_sampling_iteration slots, so each
\* slot of the batch is put by that release or a later one of the handler, or is
\* still in its sampling SliceMerger.
C10_AsyncReleasesAtOnce ==
    async_rl =>
        /\ NothingPending
        /\ \A p \in Positions("put_many") \cup Positions("trajectory_buffers_available") :
               AfterAnAnnouncement(p)
        /\ \A p \in Positions("training_batches_available") :
               /\ ReleaseFollows(p)
               /\ ~batched_sampling => PutInRelease(p) = BatchSlots(emitted[p].batch_idx)
               /\ batched_sampling =>
                      BatchSlots(emitted[p].batch_idx) \subseteq PutFrom(p) \cup InSamplingMergers

\* asynchronous mode: on_training_batch_released assembled a batch and
\* released its slots in the same handler
C10_ReleasedInHandler ==
    /\ async_rl
    /\ handler.name = "on_training_batch_released"
    /\ Positions("training_batches_available") # {}
    /\ Positions("put_many") # {}

\* --------------------------------------------------------------------- C3
\* slot s was copied into a batch and has not been put on a queue since
Owed(s) ==
    \/ TimesListed(s[1], s[2], 0) >= 1
    \/ TimesInMerger(slices_for_sampling[s[1]], s[2]) >= 1

\* C3 as stated: in every combination of modes a slot is never on its queue
\* twice, and every slot copied into a batch is put on its queue in the end.
C3_EveryBatchedSlotPut ==
    /\ [](\A s \in Slots : traj_buffer_queues[s[1]][s[2]] <= 1)
    /\ \A s \in Slots : Owed(s) ~> traj_buffer_queues[s[1]][s[2]] = 1

\* C3 amended: a slot is never on its queue twice. A slot copied into a batch
\* waits in the pending-release list of a buffer that is in flight (synchronous
\* mode only: the release of the buffer ends that), or, with batched sampling
\* only, in its device's sampling SliceMerger inside a range shorter than
\* traj_per_sampling_iteration, where it stays until released neighbours
\* complete the range; every other slot is with the samplers or reported and
\* in the training SliceMerger.
C3_PutOnceOrHeldBack ==
    /\ raised = "none"
    /\ \A s \in Slots :
           /\ traj_buffer_queues[s[1]][s[2]] <= 1
           /\ \/ traj_buffer_queues[s[1]][s[2]] = 1
              \/ TimesInMerger(slices_for_training[s[1]], s[2]) = 1
              \/ Owed(s)
    /\ \A b \in BatchIdxs :
           Len(traj_tensors_to_release[b]) # 0 => ~async_rl /\ b \in in_flight
    /\ \A d \in Devices : \A p \in 1..Len(slices_for_sampling[d].slice_starts) :
           /\ batched_sampling
           /\ slice_len(slices_for_sampling[d].slice_starts[p]) < traj_per_sampling_iteration

\* batched sampling: the last handler put a whole range on a queue and held
\* another slot back
C3_PutAndHeldBack ==
    /\ batched_sampling
    /\ Positions("put_many") # {}
    /\ \E p \in Positions("put_many") : Len(emitted[p].batches) > 0
    /\ InSamplingMergers # {}

\* C3 with unbatched sampling: there every slot copied into a batch is put on
\* its queue in the end
C3_EveryBatchedSlotPutUnbatched ==
    ~batched_sampling => \A s \in Slots : Owed(s) ~> traj_buffer_queues[s[1]][s[2]] = 1

\* --------------------------------------------------------------------- C6
\* the ranges a SliceMerger stores, under either key
Stored(m) == {m.slice_starts[p] : p \in 1..Len(m.slice_starts)} \cup m.slice_stops

\* C6: the ranges a SliceMerger stores are pairwise disjoint, and none stops
\* where another starts.
C6_DisjointNotAdjacent ==
    \A r1, r2 \in Stored(merger) :
        r1 # r2 => /\ SliceIndices(r1) \cap SliceIndices(r2) = {}
                   /\ r1[2] # r2[1]

\* a merge_slices whose range filled the gap between two stored ranges, with
\* another range stored apart
C6_BridgedTwoRanges ==
    /\ merger_call.method = "merge_slices"
    /\ \E r \in Stored(merger) : r[1] < merger_call.arg[1] /\ merger_call.arg[2] < r[2]
    /\ Cardinality(Stored(merger)) >= 2

\* --------------------------------------------------------------------- C7
\* C7: the stored ranges cover exactly the indices merged in (and not handed
\* out since), no call ends in a KeyError, and merging [3,5) into [0,3) leaves
\* the single range [0,5) with a total of 5.
C7_CoversExactlyTheUnion ==
    /\ ~merger_call.raised
    /\ Covered(merger) = merger_indices
    /\ \A p \in 1..Len(merger.slice_starts) : slice_len(merger.slice_starts[p]) >= 1
    /\ (/\ merger_call.method = "merge_slices"
        /\ merger_call.arg = <<3, 5>>
        /\ merger_indices = 0..4)
       => merger.slice_starts = <<<<0, 5>>>> /\ merger.total_num = 5

\* [0,3) was stored and [3,5) has just been merged in
C7_ZeroThreeThenThreeFive ==
    /\ merger_call.method = "merge_slices"
    /\ merger_call.arg = <<3, 5>>
    /\ merger_indices = 0..4
    /\ merger.slice_starts = <<<<0, 5>>>>

\* --------------------------------------------------------------------- C8
\* the lengths of the ranges in slice_starts, summed
RECURSIVE Recount(_)
Recount(starts) == IF Len(starts) = 0 THEN 0 ELSE slice_len(starts[1]) + Recount(Tail(starts))

\* C8: total_num equals the sum of the lengths of the ranges in slice_starts.
C8_TotalIsRecount == merger.total_num = Recount(merger.slice_starts)

\* a get_at_most or get_exactly that split a range: the part handed out and the
\* rest stored again
C8_SplitRange ==
    /\ merger_call.method \in {"get_at_most", "get_exactly"}
    /\ merger_call.result # None
    /\ \E p \in 1..Len(merger.slice_starts) :
           merger.slice_starts[p][1] = merger_call.result[2]
    /\ merger.total_num >= 2

\* -------------------------------------------------------------------- C11
\* how many times the put_many emissions of trace put slot i of device d
RECURSIVE PutCount(_, _, _)
PutCount(trace, d, i) ==
    IF Len(trace) = 0 THEN 0
    ELSE (IF trace[1].sig = "put_many" /\ trace[1].device = d
          THEN SlotCount(trace[1].batches, batched_sampling, i) ELSE 0)
         + PutCount(Tail(trace), d, i)

\* the slots of device d a sampler reported in this step: those that left the
\* device's queue, whatever the handler put back on it
StepReported(d) ==
    {i \in SlotsOf(d) :
        traj_buffer_queues[d][i] + PutCount(emitted', d, i) > traj_buffer_queues'[d][i]}

\* how many slots were reported in this step
NumReported == Cardinality(UNION {{<<d, i>> : i \in StepReported(d)} : d \in Devices})

\* this step is an on_new_trajectories call
NewTrajectoriesStep == handler'.name = "on_new_trajectories" /\ NumReported > 0

\* this step differs from the state before it by the reported slots, now in
\* the training SliceMerger of their device, and by nothing else
OnlyMerged ==
    /\ raised' = "none"
    /\ emitted' = <<>>
    /\ UNCHANGED <<available_batches, traj_tensors_to_release, training_batches,
                   in_flight, slices_for_sampling, training_iteration>>
    /\ \A d \in Devices :
           /\ Covered(slices_for_training'[d]) =
                  Covered(slices_for_training[d]) \cup StepReported(d)
           /\ slices_for_training'[d].total_num =
                  slices_for_training[d].total_num + Cardinality(StepReported(d))

\* C11: with no batch buffer free, on_new_trajectories only merges: the
\* reported slots are in the training SliceMerger, nothing was taken out of
\* one, no pending-release list and no buffer changed, nothing was emitted,
\* however much data the SliceMergers hold.
C11_OnlyMergesWhenNoneFree ==
    [][NewTrajectoriesStep /\ Len(available_batches) = 0 => OnlyMerged]_vars

\* on_new_trajectories ran with no buffer free and left a batch's worth of
\* data, or more, in the training SliceMergers
C11_DataWaitsForABuffer ==
    /\ handler.name = "on_new_trajectories"
    /\ Len(available_batches) = 0
    /\ emitted = <<>>
    /\ SumTotalNum(slices_for_training, 1) >= traj_per_training_iteration

\* -------------------------------------------------------------------- C12
\* this step reports the slots that follow the first half of a batch on the
\* first device and reach one slot past the batch: [B/2, B+1) after [0, B/2),
\* with nothing else stored and a buffer free
HalfThenRest ==
    /\ StepReported(DeviceOrder[1]) =
           (traj_per_training_iteration \div 2)..traj_per_training_iteration
    /\ \A d \in Devices \ {DeviceOrder[1]} : StepReported(d) = {}
    /\ slices_for_training[DeviceOrder[1]].slice_starts =
           <<<<0, traj_per_training_iteration \div 2>>>>
    /\ \A d \in Devices \ {DeviceOrder[1]} : slices_for_training[d].total_num = 0
    /\ Len(available_batches) > 0

\* this step announced one batch, of the slots [0, B) of the first device,
\* whose training SliceMerger is left with [B, B+1)
OneBatchOneLeft ==
    /\ raised' = "none"
    /\ Len(available_batches') = Len(available_batches) - 1
    /\ Cardinality({p \in 1..Len(emitted') :
                        emitted'[p].sig = "training_batches_available"}) = 1
    /\ training_batches'[available_batches[1]] =
           [q \in 1..traj_per_training_iteration |-> <<DeviceOrder[1], q - 1>>]
    /\ slices_for_training'[DeviceOrder[1]].slice_starts =
           <<<<traj_per_training_iteration, traj_per_training_iteration + 1>>>>
    /\ slices_for_training'[DeviceOrder[1]].total_num = 1

\* C12: when the reported slots leave the training SliceMergers with fewer than
\* traj_per_training_iteration slots in all, on_new_trajectories only merges:
\* no buffer taken, no pending-release list changed, nothing taken out of a
\* SliceMerger, nothing emitted. And with [0, B/2) stored, the report of
\* [B/2, B+1) assembles exactly one batch, of [0, B), and leaves [B, B+1).
C12_NothingAssembledBelowB ==
    [][NewTrajectoriesStep =>
          /\ SumTotalNum(slices_for_training, 1) + NumReported
                 < traj_per_training_iteration => OnlyMerged
          /\ HalfThenRest => OneBatchOneLeft]_vars

\* with a buffer free, the first half of a batch was reported and nothing was
\* assembled
C12_HalfABatchWaits ==
    /\ handler.name = "on_new_trajectories"
    /\ emitted = <<>>
    /\ Len(available_batches) > 0
    /\ slices_for_training[DeviceOrder[1]].slice_starts =
           <<<<0, traj_per_training_iteration \div 2>>>>
    /\ \A d \in Devices \ {DeviceOrder[1]} : slices_for_training[d].total_num = 0

\* the other half and one slot more were reported next: one batch of [0, B)
\* was assembled and [B, B+1) is left
C12_ThenOneBatch ==
    /\ handler.name = "on_new_trajectories"
    /\ Cardinality(Positions("training_batches_available")) = 1
    /\ \E b \in in_flight :
           /\ Announced(b) > 0
           /\ training_batches[b] =
                  [q \in 1..traj_per_training_iteration |-> <<DeviceOrder[1], q - 1>>]
    /\ slices_for_training[DeviceOrder[1]].slice_starts =
           <<<<traj_per_training_iteration, traj_per_training_iteration + 1>>>>

\* -------------------------------------------------------------------- C13
\* the training_batches_available emissions in a handler's trace
Announcements(trace) ==
    Cardinality({p \in 1..Len(trace) : trace[p].sig = "training_batches_available"})

Min(a, b) == IF a <= b THEN a ELSE b

\* C13: no handler ends with a buffer free and a batch's worth of data in the
\* training SliceMergers; and on_new_trajectories announces as many batches as
\* the free buffers and the data after its merge allow, so m free buffers and
\* m*B reported slots give at least m announcements in that handler.
C13_GreedyAssembly ==
    [][/\ raised' = "none"
       /\ ~(/\ Len(available_batches') > 0
            /\ SumTotalNum(slices_for_training', 1) >= traj_per_training_iteration)
       /\ NewTrajectoriesStep =>
              Announcements(emitted') =
                  Min(Len(available_batches),
                      (SumTotalNum(slices_for_training, 1) + NumReported)
                          \div traj_per_training_iteration)]_vars

\* one on_new_trajectories announced two batches
C13_TwoBatchesOneReport ==
    /\ handler.name = "on_new_trajectories"
    /\ Announcements(emitted) = 2
    /\ Cardinality(in_flight) = 2

\* -------------------------------------------------------------------- C14
\* this step is a get_at_most or get_exactly that returned a range
GotARange ==
    /\ merger_call'.method \in {"get_at_most", "get_exactly"}
    /\ merger_call'.result # None

\* the least length the range this step's call extracts from must have
LeastLen == IF merger_call'.method = "get_exactly" THEN merger_call'.arg ELSE 1

\* the positions in slice_starts of the ranges that are n long or longer
Eligible(m, n) ==
    {p \in 1..Len(m.slice_starts) : m.slice_starts[p][2] - m.slice_starts[p][1] >= n}

\* of the ranges n long or longer, the one with the smallest start
SmallestStart(m, n) ==
    m.slice_starts[CHOOSE p \in Eligible(m, n) :
        \A q \in Eligible(m, n) : m.slice_starts[p][1] <= m.slice_starts[q][1]]

\* of the ranges n long or longer, the one stored first
FirstStored(m, n) ==
    m.slice_starts[CHOOSE p \in Eligible(m, n) : \A q \in Eligible(m, n) : p <= q]

\* the ranges of m in stored order, without the one that starts at k
RECURSIVE Others(_, _)
Others(starts, k) ==
    IF Len(starts) = 0 THEN <<>>
    ELSE (IF starts[1][1] = k THEN <<>> ELSE <<starts[1]>>) \o Others(Tail(starts), k)

\* C14 as stated: get_at_most extracts from the stored range with the smallest
\* start, get_exactly from the one with the smallest start among those long
\* enough, whatever the order the ranges were stored in.
C14_SmallestStartFirst ==
    [][GotARange => merger_call'.result[1] = SmallestStart(merger, LeastLen)[1]]_vars

\* C14: get_at_most extracts from the range stored first, get_exactly from the
\* one stored first among those long enough; the other ranges keep their order
\* and a remainder is stored last.
C14_FirstStoredFirst ==
    [][GotARange =>
          /\ merger_call'.result[1] = FirstStored(merger, LeastLen)[1]
          /\ merger'.slice_starts =
                 Others(merger.slice_starts, merger_call'.result[1])
                 \o (IF merger_call'.result[2] < FirstStored(merger, LeastLen)[2]
                     THEN <<<<merger_call'.result[2], FirstStored(merger, LeastLen)[2]>>>>
                     ELSE <<>>)]_vars

\* a get_at_most returned a range although a range with a smaller start was
\* stored, and still is
C14_LaterStartTaken ==
    /\ merger_call.method = "get_at_most"
    /\ merger_call.result # None
    /\ \E p \in 1..Len(merger.slice_starts) :
           merger.slice_starts[p][2] <= merger_call.result[1]

\* -------------------------------------------------------------------- C15
\* C15: get_exactly(n) returns None and leaves the SliceMerger as it was when
\* no single stored range is n long, whatever total_num is; otherwise it
\* returns the first n indices of one stored range that is n long or longer.
\* From {[0,2), [5,9)}, get_exactly(3) returns [5,8) and leaves {[0,2), [8,9)}.
C15_NeverConcatenates ==
    [][merger_call'.method = "get_exactly" =>
          /\ (\A r \in Stored(merger) : r[2] - r[1] < merger_call'.arg)
             => merger_call'.result = None /\ merger' = merger
          /\ (\E r \in Stored(merger) : r[2] - r[1] >= merger_call'.arg)
             => /\ merger_call'.result # None
                /\ merger_call'.result[2] - merger_call'.result[1] = merger_call'.arg
                /\ \E r \in Stored(merger) :
                       /\ r[1] = merger_call'.result[1]
                       /\ r[2] >= merger_call'.result[2]
          /\ (Stored(merger) = {<<0, 2>>, <<5, 9>>} /\ merger_call'.arg = 3)
             => /\ merger_call'.result = <<5, 8>>
                /\ Stored(merger') = {<<0, 2>>, <<8, 9>>}]_vars

\* a get_exactly returned None from a SliceMerger that holds, in two ranges or
\* more, at least as many indices as were asked for
C15_NoneThoughEnoughInAll ==
    /\ merger_call.method = "get_exactly"
    /\ merger_call.result = None
    /\ merger.total_num >= merger_call.arg
    /\ Len(merger.slice_starts) >= 2

\* get_exactly(3) skipped [0,2) and split [5,9)
C15_SkippedShortRange ==
    /\ merger_call.method = "get_exactly"
    /\ merger_call.arg = 3
    /\ merger_call.result = <<5, 8>>
    /\ Stored(merger) = {<<0, 2>>, <<8, 9>>}

\* -------------------------------------------------------------------- C16
\* the learner acknowledges a batch buffer it does not hold: the buffer is in
\* available_batches already
StaleBatchReleased ==
    \E batch_idx \in BatchIdxs : \E iteration \in NextIterations :
        /\ batch_idx \notin in_flight
        /\ raised = "none"
        /\ Len(available_batches) + Cardinality(in_flight)
               < max_batches_to_accumulate + MaxStaleAcks
        /\ \E st \in on_training_batch_released(State, batch_idx, iteration,
                                                async_rl, batched_sampling) :
               Becomes(st, "on_training_batch_released", batch_idx)

\* the Batcher with a learner that may acknowledge a buffer it does not hold
StaleSpec == Init /\ [][Next \/ StaleBatchReleased]_vars

\* C16: an on_training_batch_released for a buffer that is not in flight ends
\* in an error, with available_batches as it was, nothing emitted and no slot
\* put on a sampler's queue.
C16_StaleAckIsFatal ==
    [][handler'.name = "on_training_batch_released" /\ handler'.batch_idx \notin in_flight
           => /\ raised' # "none"
              /\ available_batches' = available_batches
              /\ emitted' = <<>>
              /\ traj_buffer_queues' = traj_buffer_queues]_vars

\* -------------------------------------------------------------------- C17
\* how far the total_num of a SliceMerger is ahead of the indices it stores
Overcount(m) == m.total_num - Cardinality(Covered(m))

\* a sampler reports slots of which some are in the training SliceMerger of the
\* device already; the others it holds
DuplicateTrajectories ==
    \E device \in Devices : \E trajectory_dicts \in TrajectoryDicts(device) :
        /\ raised = "none"
        /\ \A i \in ReportedSlots(trajectory_dicts) :
               \/ traj_buffer_queues[device][i] >= 1
               \/ i \in Covered(slices_for_training[device])
        /\ ReportedSlots(trajectory_dicts) \cap Covered(slices_for_training[device]) # {}
        /\ \E st0 \in {[State EXCEPT !.traj_buffer_queues[device] =
                           [i \in SlotsOf(device) |->
                               IF /\ i \in ReportedSlots(trajectory_dicts)
                                  /\ i \notin Covered(slices_for_training[device])
                               THEN @[i] - 1 ELSE @[i]]]} :
           \E st \in on_new_trajectories(st0, trajectory_dicts, device,
                                         async_rl, batched_sampling) :
               Becomes(st, "on_new_trajectories", -1)

\* no total_num is so far ahead that the model stops following the Batcher
Followed ==
    /\ \A d \in Devices : Overcount(slices_for_training[d]) < MaxOvercount
    /\ \A s \in Slots : Places(s[1], s[2]) <= MaxCopies

DuplicateNext ==
    \/ Followed /\ NewTrajectories
    \/ Followed /\ TrainingBatchReleased
    \/ Followed /\ DuplicateTrajectories

\* the Batcher with samplers that may report a slot a second time
DuplicateSpec == Init /\ [][DuplicateNext]_vars

\* C17: no handler ends without an error in a state where the total_num of a
\* training SliceMerger differs from the number of indices it stores, where a
\* stored range is known under one boundary only, or where a slot is in two
\* places and so can be batched twice.
C17_DuplicateReportIsFatal ==
    raised = "none" =>
        /\ \A d \in Devices :
               /\ Overcount(slices_for_training[d]) = 0
               /\ slices_for_training[d].slice_stops =
                      {slices_for_training[d].slice_starts[p] :
                           p \in 1..Len(slices_for_training[d].slice_starts)}
        /\ \A s \in Slots : Places(s[1], s[2]) <= 1

\* ------------------------------------------------------------ SavingBatcher
\* cfg.min_saving_samples
min_saving_samples == 2
\* cfg.saving_batcher.train_iter_to_data_collection_ratio
train_iter_to_data_collection_ratio == 1
\* cfg.min_initial_train_iters
min_initial_train_iters == 0
\* cfg.saving_batcher.max_size
max_size == 3

\* the state a SavingBatcher handler works on
SavingState == State @@ [saving |-> saving]

\* dataset.num_samples after dataset.add of n trajectories: the retained pool
\* grows by what is added, up to its cap
DatasetAdd(num_samples, n) == Min(num_samples + n, max_size)

\* a batch drawn from the dataloader: samples of the dataset, not buffer slots
DatasetBatch == [q \in 1..traj_per_training_iteration |-> <<"dataset", -1>>]

RECURSIVE SavingCopyFromDevice(_, _)

\* the body of the while loop of _maybe_enqueue_new_trajectory_data, r being
\* what get_at_most(remaining) gave
SavingCopied(st, device, r) ==
    IF r.raised
    THEN [st EXCEPT !.slices_for_training[device] = r.m, !.raised = "KeyError"]
    ELSE IF r.s = None THEN st
    ELSE SavingCopyFromDevice(
             [st EXCEPT !.slices_for_training[device] = r.m,
                        !.saving.num_samples = DatasetAdd(@, slice_len(r.s)),
                        !.saving.traj_slices_to_release = Append(@, <<device, r.s>>),
                        !.trajectories_copied = @ + slice_len(r.s)],
             device)

\* while remaining > 0 and (traj_slice := slices.get_at_most(remaining))
SavingCopyFromDevice(st, device) ==
    IF st.raised # "none" \/ traj_per_training_iteration - st.trajectories_copied <= 0
    THEN st
    ELSE Then(get_at_most(st.slices_for_training[device],
                          traj_per_training_iteration - st.trajectories_copied),
              LAMBDA r : SavingCopied(st, device, r))

\* the for loop over the shuffled devices
RECURSIVE SavingCopyFromDevices(_, _, _)
SavingCopyFromDevices(st, devices, p) ==
    IF p > Len(devices) THEN st
    ELSE Then(SavingCopyFromDevice(st, devices[p]), LAMBDA st1 :
              SavingCopyFromDevices(st1, devices, p + 1))

\* SavingBatcher._maybe_enqueue_new_trajectory_data: one outcome for every way
\* random.shuffle(devices) can fall
maybe_enqueue_new_trajectory_data(st) ==
    {SavingCopyFromDevices([st EXCEPT !.trajectories_copied = 0], devices, 1) :
         devices \in DeviceShuffles}

\* a release that keeps the list of what it released
SavingReleasedKeepList(st, nsb) ==
    Then(PutAll(st, nsb, 1, FALSE), LAMBDA st2 :
    Emit(st2, Event("trajectory_buffers_available", -1, "", <<>>, st2.training_iteration)))

\* SavingBatcher._release_traj_tensors from the else branch on, nsb being
\* new_sampling_batches, sorted
SavingReleased(st, nsb) ==
    Then([st EXCEPT !.saving.traj_slices_to_release = <<>>], LAMBDA st1 :
    Then(PutAll(st1, nsb, 1, FALSE), LAMBDA st2 :
    Emit(st2, Event("trajectory_buffers_available", -1, "", <<>>, st2.training_iteration))))

\* SavingBatcher._release_traj_tensors
saving_release_traj_tensors(st, batched) ==
    IF st.raised # "none" THEN st
    ELSE IF batched THEN [st EXCEPT !.raised = "NotImplementedError"]
    ELSE Then(SortAll(FlattenToRelease(st.saving.traj_slices_to_release, <<>>, 1)),
              LAMBDA nsb : SavingReleased(st, nsb))

RECURSIVE saving_maybe_enqueue_new_training_batches(_, _)

\* the batch drawn, stored in the buffer and announced; then the async check
SavingAnnounced(st, batch_idx, async) ==
    Then(Emit([st EXCEPT !.training_batches[batch_idx] = DatasetBatch,
                         !.in_flight = @ \cup {batch_idx}],
              Event("training_batches_available", batch_idx, "", <<>>, -1)), LAMBDA st1 :
         IF async THEN [st1 EXCEPT !.raised = "NotImplementedError"]
         ELSE saving_maybe_enqueue_new_training_batches(st1, async))

\* one iteration of the while loop: the first free buffer taken, its
\* pending-release list checked, next(self._data_iter)
SavingFillBuffer(st, batch_idx, async) ==
    IF Len(st.traj_tensors_to_release[batch_idx]) # 0
    THEN [st EXCEPT !.raised = "AssertionError"]
    ELSE IF ~st.saving.data_iter THEN [st EXCEPT !.raised = "TypeError"]
    ELSE SavingAnnounced(st, batch_idx, async)

\* SavingBatcher._maybe_enqueue_new_training_batches
saving_maybe_enqueue_new_training_batches(st, async) ==
    IF st.raised # "none" \/ Len(st.available_batches) = 0 THEN st
    ELSE Then([st EXCEPT !.available_batches = Tail(@)], LAMBDA st1 :
              SavingFillBuffer(st1, st.available_batches[1], async))

\* on_new_trajectories after _maybe_enqueue_new_trajectory_data: release while
\* the dataset is short of min_saving_samples, train otherwise
ReleaseOrTrain(st, async, batched) ==
    IF st.raised # "none" THEN st
    ELSE IF st.saving.num_samples < min_saving_samples
    THEN saving_release_traj_tensors(st, batched)
    ELSE saving_maybe_enqueue_new_training_batches(
             [st EXCEPT !.saving.data_iter = TRUE], async)

\* SavingBatcher.on_new_trajectories (self._n_slices_merged is written and
\* never read: it is left out)
saving_on_new_trajectories(st, trajectory_dicts, device, async, batched) ==
    {ReleaseOrTrain(st2, async, batched) :
         st2 \in maybe_enqueue_new_trajectory_data(
                     MergeReported(st, trajectory_dicts, device, 1))}

\* collect_more_data
CollectMoreData(st) ==
    /\ st.training_iteration - st.saving.prev_data_collect_iteration
           >= train_iter_to_data_collection_ratio
    /\ st.training_iteration > min_initial_train_iters

\* if collect_more_data: release and remember the iteration
ReleaseIfCollecting(st, batched) ==
    IF ~CollectMoreData(st) THEN st
    ELSE Then(saving_release_traj_tensors(st, batched), LAMBDA st1 :
              IF st1.raised # "none" THEN st1
              ELSE [st1 EXCEPT !.saving.prev_data_collect_iteration = st1.training_iteration])

\* if self.cfg.async_rl: raise NotImplementedError()
RaiseIfAsync(st, async) ==
    IF st.raised = "none" /\ async THEN [st EXCEPT !.raised = "NotImplementedError"] ELSE st

\* SavingBatcher.on_training_batch_released
saving_on_training_batch_released(st, batch_idx, iteration, async, batched) ==
    Then([st EXCEPT !.training_iteration = iteration,
                    !.available_batches = Append(@, batch_idx)], LAMBDA st1 :
    Then(ReleaseIfCollecting(st1, batched), LAMBDA st2 :
    Then(saving_maybe_enqueue_new_training_batches(st2, async), LAMBDA st3 :
    RaiseIfAsync(st3, async))))

\* the variables after a SavingBatcher handler has run
SavingBecomes(st, name, batch_idx) ==
    /\ handler' = [name |-> name, batch_idx |-> batch_idx]
    /\ slices_for_training' = st.slices_for_training
    /\ available_batches' = st.available_batches
    /\ training_batches' = st.training_batches
    /\ training_iteration' = st.training_iteration
    /\ traj_buffer_queues' = st.traj_buffer_queues
    /\ in_flight' = st.in_flight
    /\ emitted' = st.emitted
    /\ raised' = st.raised
    /\ saving' = st.saving
    /\ UNCHANGED <<async_rl, batched_sampling, slices_for_sampling,
                   traj_tensors_to_release, flow>>
    /\ UNCHANGED merger_vars

\* a sampler sends new trajectories to a SavingBatcher
SavingNewTrajectories ==
    \E device \in Devices : \E trajectory_dicts \in TrajectoryDicts(device) :
        /\ raised = "none"
        /\ SamplerHolds(trajectory_dicts, device)
        /\ \E st0 \in {[SavingState EXCEPT !.traj_buffer_queues[device] =
                           [i \in SlotsOf(device) |->
                               IF i \in ReportedSlots(trajectory_dicts)
                               THEN @[i] - 1 ELSE @[i]]]} :
           \E st \in saving_on_new_trajectories(st0, trajectory_dicts, device,
                                                async_rl, batched_sampling) :
               SavingBecomes(st, "on_new_trajectories", -1)

\* the learner is done with a batch a SavingBatcher gave it
SavingTrainingBatchReleased ==
    \E batch_idx \in BatchIdxs : \E iteration \in NextIterations :
        /\ batch_idx \in in_flight
        /\ raised = "none"
        /\ \E st0 \in {[SavingState EXCEPT !.in_flight = @ \ {batch_idx},
                                           !.training_batches[batch_idx] = EmptyBatch]} :
           \E st \in {saving_on_training_batch_released(st0, batch_idx, iteration,
                                                        async_rl, batched_sampling)} :
               SavingBecomes(st, "on_training_batch_released", batch_idx)

SavingNext == SavingNewTrajectories \/ SavingTrainingBatchReleased

\* a SavingBatcher under every setting of cfg.async_rl and cfg.batched_sampling
SavingSpec == Init /\ [][SavingNext]_vars

\* -------------------------------------------------------------------- C18
\* C18: under a configuration SavingBatcher does not support, no handler
\* emits training_batches_available or trajectory_buffers_available, takes a
\* slot out of a training SliceMerger or takes a buffer from available_batches:
\* the error comes first.
C18_RejectedAtSetup ==
    async_rl \/ batched_sampling =>
        /\ Positions("training_batches_available") = {}
        /\ Positions("trajectory_buffers_available") = {}
        /\ Len(available_batches) = max_batches_to_accumulate
        /\ in_flight = {}
        /\ saving.traj_slices_to_release = <<>>
        /\ saving.num_samples = 0

\* -------------------------------------------------------------------- C19
\* C19: in synchronous mode no handler emits stop_experience_collection or
\* resume_experience_collection, so none was ever emitted.
C19_SyncNeverStopsOrResumes ==
    ~async_rl => Positions(Stop) \cup Positions(Resume) = {} /\ flow = "none"

\* synchronous mode: on_training_batch_released arrived with no buffer free,
\* and left the one it was given free
C19_RefilledFromEmpty ==
    /\ ~async_rl
    /\ handler.name = "on_training_batch_released"
    /\ Positions("training_batches_available") = {}
    /\ available_batches = <<handler.batch_idx>>
    /\ Cardinality(in_flight) = max_batches_to_accumulate - 1

\* -------------------------------------------------------------------- C20
\* range r of the SliceMerger before this step is the one its get_at_most took
\* from: the first indices of r returned, the rest of r stored, every other
\* range as it was
TookFrom(r) ==
    /\ merger_call'.result =
           <<r[1], r[1] + Min(merger_call'.arg, r[2] - r[1])>>
    /\ Stored(merger') =
           (Stored(merger) \ {r})
           \cup (IF r[2] - r[1] > merger_call'.arg
                 THEN {<<r[1] + merger_call'.arg, r[2]>>} ELSE {})
    /\ merger'.total_num = merger.total_num - Min(merger_call'.arg, r[2] - r[1])

\* C20: get_at_most(n) returns None and changes nothing when the SliceMerger
\* is empty; otherwise it returns the first min(n, e-s) indices of one stored
\* range [s,e), keeps [s+n, e) stored when e-s > n, leaves every other stored
\* range as it was and takes the returned length off total_num.
C20_GetAtMostTakesAPrefix ==
    [][merger_call'.method = "get_at_most" /\ ~merger_call'.raised =>
          IF Stored(merger) = {}
          THEN merger_call'.result = None /\ merger' = merger
          ELSE merger_call'.result # None /\ \E r \in Stored(merger) : TookFrom(r)]_vars

\* a get_at_most returned all it was asked for and left a remainder, with
\* another range stored
C20_RemainderKept ==
    /\ merger_call.method = "get_at_most"
    /\ merger_call.result # None
    /\ merger_call.result[2] - merger_call.result[1] = merger_call.arg
    /\ \E r \in Stored(merger) : r[1] = merger_call.result[2]
    /\ Cardinality(Stored(merger)) >= 2

\* a get_at_most on an empty SliceMerger
C20_NoneFromEmpty ==
    /\ merger_call.method = "get_at_most"
    /\ merger_call.result = None
    /\ merger = NewSliceMerger

\* -------------------------------------------------------------------- C21
\* where trace has signal sig
SignalAt(trace, sig) == {p \in 1..Len(trace) : trace[p].sig = sig}

\* the put_many calls of the release that ends with the
\* trajectory_buffers_available at position q: those right before it
ReleaseBlock(trace, q) ==
    {r \in 1..(q - 1) : \A k \in r..(q - 1) : trace[k].sig = "put_many"}

\* a list of ints in ascending order, none twice
Ascending(l) == \A k \in 1..(Len(l) - 1) : l[k] < l[k + 1]

\* the release that ends at position q of trace put on the queue of device d
\* one list, ascending, of exactly the slots want, or nothing when there are none
OneSortedList(trace, q, d, want) ==
    /\ Cardinality({r \in ReleaseBlock(trace, q) : trace[r].device = d})
           = IF want = {} THEN 0 ELSE 1
    /\ \A r \in {x \in ReleaseBlock(trace, q) : trace[x].device = d} :
           /\ Ascending(trace[r].batches)
           /\ {trace[r].batches[k] : k \in 1..Len(trace[r].batches)} = want

\* the slot indices of the ranges a pending-release list records for device d
RecordedFor(l, d) ==
    UNION {SliceIndices(l[p][2]) : p \in {x \in 1..Len(l) : l[x][1] = d}}

\* the slot indices of device d among the <<device, slot>> pairs of a batch
CopiedFrom(batch, d) == {batch[k][2] : k \in {x \in 1..Len(batch) : batch[x][1] = d}}

\* synchronous mode: this on_training_batch_released released the list of the
\* buffer it was given, as it stood, first thing and once
SyncRelease ==
    /\ raised' = "none"
    /\ Cardinality(SignalAt(emitted', "trajectory_buffers_available")) = 1
    /\ \A q \in SignalAt(emitted', "trajectory_buffers_available") :
           /\ emitted'[q].training_iteration = training_iteration'
           /\ SignalAt(emitted', "put_many") = ReleaseBlock(emitted', q)
           /\ \A d \in Devices :
                  OneSortedList(emitted', q, d,
                                RecordedFor(traj_tensors_to_release[handler'.batch_idx], d))
    /\ IF \E p \in SignalAt(emitted', "training_batches_available") :
              emitted'[p].batch_idx = handler'.batch_idx
       THEN SumLens(traj_tensors_to_release'[handler'.batch_idx])
                = traj_per_training_iteration
       ELSE traj_tensors_to_release'[handler'.batch_idx] = <<>>

\* asynchronous mode: every announcement of this handler is followed by the
\* release of what was copied into the buffer announced
AsyncReleases ==
    /\ raised' = "none"
    /\ Cardinality(SignalAt(emitted', "trajectory_buffers_available"))
           = Cardinality(SignalAt(emitted', "training_batches_available"))
    /\ SignalAt(emitted', "put_many") =
           UNION {ReleaseBlock(emitted', q) :
                      q \in SignalAt(emitted', "trajectory_buffers_available")}
    /\ \A p \in SignalAt(emitted', "training_batches_available") :
           /\ traj_tensors_to_release'[emitted'[p].batch_idx] = <<>>
           /\ \E q \in SignalAt(emitted', "trajectory_buffers_available") :
                  /\ q > p
                  /\ ReleaseBlock(emitted', q) = (p + 1)..(q - 1)
                  /\ emitted'[q].training_iteration = training_iteration'
                  /\ \A d \in Devices :
                         OneSortedList(emitted', q, d,
                             CopiedFrom(training_batches'[emitted'[p].batch_idx], d))

\* C21: with unbatched sampling, a release puts on the queue of every device
\* one list, ascending and without duplicates, of exactly the slots recorded
\* for that device in the pending-release list of the buffer; then the list is
\* empty and one trajectory_buffers_available carries the training iteration.
C21_OneSortedListPerDevice ==
    [][~batched_sampling /\ handler'.name # "none" =>
          IF async_rl THEN AsyncReleases
          ELSE IF handler'.name = "on_training_batch_released" THEN SyncRelease
          ELSE SignalAt(emitted', "trajectory_buffers_available") = {}
               /\ SignalAt(emitted', "put_many") = {}]_vars

\* synchronous mode, unbatched sampling: a release put slots on the queues of
\* two devices
C21_ReleasedToTwoQueues ==
    /\ ~async_rl /\ ~batched_sampling
    /\ handler.name = "on_training_batch_released"
    /\ Cardinality(Positions("put_many")) = 2

\* unbatched sampling: a release put two slots of one device on its queue
C21_TwoSlotsOneList ==
    /\ ~batched_sampling
    /\ \E p \in Positions("put_many") : Len(emitted[p].batches) = 2

\* -------------------------------------------------------------------- C22
\* C22: with batched sampling, every chunk a release puts on a queue is a
\* range of exactly traj_per_sampling_iteration slots; no slot is with the
\* samplers twice, or with them and in a sampling SliceMerger; and no range
\* stored in a sampling SliceMerger is traj_per_sampling_iteration long.
C22_ChunksOfExactlyS ==
    batched_sampling =>
        /\ \A p \in Positions("put_many") : \A k \in 1..Len(emitted[p].batches) :
               emitted[p].batches[k][2] - emitted[p].batches[k][1]
                   = traj_per_sampling_iteration
        /\ \A s \in Slots :
               traj_buffer_queues[s[1]][s[2]]
                   + TimesInMerger(slices_for_sampling[s[1]], s[2]) <= 1
        /\ \A d \in Devices : \A r \in Stored(slices_for_sampling[d]) :
               r[2] - r[1] < traj_per_sampling_iteration

\* batched sampling: a release handed out a chunk and left a shorter range in
\* a sampling SliceMerger
C22_ChunkOutRestKept ==
    /\ batched_sampling
    /\ \E p \in Positions("put_many") : Len(emitted[p].batches) >= 1
    /\ \E d \in Devices : slices_for_sampling[d].total_num >= 1

\* -------------------------------------------------------------------- C23
\* how many entries of list l are x
CountIn(l, x) == Cardinality({p \in 1..Len(l) : l[p] = x})

\* how many times trace announces batch buffer b
AnnouncedTimes(trace, b) ==
    Cardinality({p \in SignalAt(trace, "training_batches_available") : trace[p].batch_idx = b})

\* C23: after every handler each of the K buffer indices is in
\* available_batches once or in flight, never both, so the free and the
\* in-flight buffers are K in all; and a handler announces a buffer at most
\* once, and only a buffer that was free or that this very handler was given
\* back.
C23_FreeOrInFlight ==
    [][handler'.name # "none" =>
          /\ \A b \in BatchIdxs :
                 /\ CountIn(available_batches', b) + (IF b \in in_flight' THEN 1 ELSE 0) = 1
                 /\ AnnouncedTimes(emitted', b) <= 1
                 /\ AnnouncedTimes(emitted', b) = 1 =>
                        /\ b \in in_flight'
                        /\ \/ CountIn(available_batches, b) = 1 /\ b \notin in_flight
                           \/ /\ handler'.name = "on_training_batch_released"
                              /\ handler'.batch_idx = b
          /\ Len(available_batches') + Cardinality(in_flight')
                 = max_batches_to_accumulate]_vars

\* on_training_batch_released filled and announced again the buffer it was
\* given back, the other buffer being in flight
C23_GivenBackAndAnnounced ==
    /\ handler.name = "on_training_batch_released"
    /\ Announced(handler.batch_idx) > 0
    /\ Len(available_batches) = 0
    /\ Cardinality(in_flight) = max_batches_to_accumulate

\* -------------------------------------------------------------------- C24
\* C24: in both modes the pending-release list of every buffer in
\* available_batches is empty, and no handler ends in an AssertionError.
C24_FreeBuffersOweNothing ==
    /\ raised = "none"
    /\ \A p \in 1..Len(available_batches) :
           traj_tensors_to_release[available_batches[p]] = <<>>

\* synchronous mode: on_training_batch_released put the slots of the buffer
\* it was given on a queue and left the buffer free
C24_ReleasedThenFree ==
    /\ ~async_rl
    /\ handler.name = "on_training_batch_released"
    /\ Positions("put_many") # {}
    /\ \E p \in 1..Len(available_batches) : available_batches[p] = handler.batch_idx

\* -------------------------------------------------------------------- C25
\* the buffer indices trace announces, in order
RECURSIVE AnnouncedOrder(_)
AnnouncedOrder(trace) ==
    IF Len(trace) = 0 THEN <<>>
    ELSE (IF trace[1].sig = "training_batches_available"
          THEN <<trace[1].batch_idx>> ELSE <<>>) \o AnnouncedOrder(Tail(trace))

\* the free buffers this step's handler had to take from: those free before
\* it, then the one it was given back
PoolOffered ==
    IF handler'.name = "on_training_batch_released"
    THEN Append(available_batches, handler'.batch_idx)
    ELSE available_batches

\* C25: the buffers are free in the order 0..K-1 at first; every handler
\* announces the buffers from the head of available_batches on, in list
\* order, with the buffer it was given back last in line, and leaves the rest
\* in that order.
C25_FirstFreedFirstFilled ==
    /\ (handler.name = "none" =>
            available_batches = [p \in 1..max_batches_to_accumulate |-> p - 1])
    /\ [][handler'.name # "none" =>
              /\ Len(AnnouncedOrder(emitted')) <= Len(PoolOffered)
              /\ AnnouncedOrder(emitted')
                     = SubSeq(PoolOffered, 1, Len(AnnouncedOrder(emitted')))
              /\ available_batches'
                     = SubSeq(PoolOffered, Len(AnnouncedOrder(emitted')) + 1,
                              Len(PoolOffered))]_vars

\* one handler announced two buffers, the higher index first: the order in
\* which they had been given back
C25_AckOrderNotIndexOrder ==
    \E p, q \in Positions("training_batches_available") :
        p < q /\ emitted[p].batch_idx > emitted[q].batch_idx

\* -------------------------------------------------------------------- C26
\* the slots of device d this step took out of the training SliceMerger
Moved(d) ==
    (Covered(slices_for_training[d]) \cup StepReported(d))
    \ Covered(slices_for_training'[d])

\* how many slots this step took out of the training SliceMergers
NumMoved == Cardinality(UNION {{<<d, i>> : i \in Moved(d)} : d \in Devices})

\* the slots of device d traj_slices_to_release held when this step released
\* it or, without a release, holds after the step
ToRelease(d) ==
    RecordedFor(saving.traj_slices_to_release, d)
    \cup (IF handler'.name = "on_new_trajectories" THEN Moved(d) ELSE {})

\* this step released traj_slices_to_release: every slot of it put once, on
\* the queue of its device, and the list emptied
SavingRelease ==
    /\ Cardinality(SignalAt(emitted', "trajectory_buffers_available")) = 1
    /\ \A q \in SignalAt(emitted', "trajectory_buffers_available") :
           /\ SignalAt(emitted', "put_many") = ReleaseBlock(emitted', q)
           /\ \A d \in Devices : OneSortedList(emitted', q, d, ToRelease(d))
    /\ saving'.traj_slices_to_release = <<>>

\* this step released nothing: traj_slices_to_release holds what it held and
\* what the step moved
SavingKept ==
    /\ SignalAt(emitted', "put_many") = {}
    /\ \A d \in Devices :
           RecordedFor(saving'.traj_slices_to_release, d) = ToRelease(d)
    /\ SumLens(saving'.traj_slices_to_release)
           = SumLens(saving.traj_slices_to_release)
             + (IF handler'.name = "on_new_trajectories" THEN NumMoved ELSE 0)

\* C26: in a synchronous SavingBatcher with unbatched sampling,
\* on_new_trajectories moves min(B, slots stored) slots, so at most B, from the
\* training SliceMergers into traj_slices_to_release and leaves the surplus
\* stored; a release puts every slot of traj_slices_to_release once on the
\* queue of its device and empties the list; and every slot is in one place
\* only: with the samplers, in a training SliceMerger or in the list.
C26_AtMostBMovedAllReleased ==
    [][~async_rl /\ ~batched_sampling /\ handler'.name # "none" =>
          /\ raised' = "none"
          /\ handler'.name = "on_new_trajectories" =>
                 /\ NumMoved = Min(traj_per_training_iteration,
                                   SumTotalNum(slices_for_training, 1) + NumReported)
                 /\ SumTotalNum(slices_for_training', 1)
                        = SumTotalNum(slices_for_training, 1) + NumReported - NumMoved
          /\ handler'.name = "on_training_batch_released" =>
                 slices_for_training' = slices_for_training
          /\ IF SignalAt(emitted', "trajectory_buffers_available") # {}
             THEN SavingRelease ELSE SavingKept
          /\ \A s \in Slots :
                 traj_buffer_queues'[s[1]][s[2]]
                     + TimesInMerger(slices_for_training'[s[1]], s[2])
                     + TimesInList(saving'.traj_slices_to_release, s[1], s[2]) = 1]_vars

\* on_new_trajectories moved a batch's worth of slots into
\* traj_slices_to_release and left a surplus in the training SliceMergers
C26_SurplusStays ==
    /\ ~async_rl /\ ~batched_sampling
    /\ handler.name = "on_new_trajectories"
    /\ SumLens(saving.traj_slices_to_release) >= traj_per_training_iteration
    /\ SumTotalNum(slices_for_training, 1) >= 1

\* on_training_batch_released released slots moved by more than one
\* on_new_trajectories
C26_ReleasedAfterTraining ==
    /\ ~async_rl /\ ~batched_sampling
    /\ handler.name = "on_training_batch_released"
    /\ Cardinality(UNION {PutSlots(p) : p \in Positions("put_many")})
           > traj_per_training_iteration

====
